---------------------------- MODULE Spec2Model ----------------------------
(***************************************************************************)
(* A model of svutRun.py, the SVUT test runner: unit-test discovery        *)
(* (find_unit_tests), define formatting (get_defines), the two command     *)
(* builders (create_iverilog, create_verilator) and the __main__ driver.   *)
(*                                                                         *)
(* Text is modelled as a sequence of one-character strings, so that        *)
(* slicing, splitting, prefix/suffix and substring tests are computed      *)
(* character by character as Python computes them.                         *)
(***************************************************************************)
EXTENDS Integers, Sequences, FiniteSets

VARIABLES
    pc,        \* position of the script: "parse", "loop", "sync", "tag", "dry",
               \* "exec", "stop", "done"; "get_defines"/"returned" for a direct call
    ARGS,      \* the parsed command line (argparse namespace)
    fs,        \* the filesystem: working directory listing and the two svut_h.sv copies
    fs0,       \* the filesystem as it was when the program started (history)
    ti,        \* number of iterations of the test loop started so far
    CMDS,      \* command list of the current test
    ci,        \* index in CMDS of the next command to run
    cmdret,    \* result code of the current test
    GIT_TAG,   \* version label
    exitCode,  \* process exit code, NoExit while running
    log,       \* every process the program has spawned, in order (history)
    defines,   \* argument of a direct get_defines call
    simdefs    \* its return value

vars == <<pc, ARGS, fs, fs0, ti, CMDS, ci, cmdret, GIT_TAG, exitCode, log, defines, simdefs>>

---------------------------------------------------------------------------
(* Bounds of the model *)

MaxTests == 2        \* longest explicit -test list
MaxDirEntries == 3   \* most entries of a working directory (discovery)
MaxDefineLen == 4    \* longest generated -define string
MaxStemLen == 3      \* longest generated test path, extension apart

NoExit == 0 - 1

---------------------------------------------------------------------------
(* Python string primitives *)

UPPER == <<"A","B","C","D","E","F","G","H","I","J","K","L","M","N","O","P","Q","R","S","T","U","V","W","X","Y","Z">>
LOWER == <<"a","b","c","d","e","f","g","h","i","j","k","l","m","n","o","p","q","r","s","t","u","v","w","x","y","z">>

\* str.lower(), one character
LowerChar(c) ==
    IF \E i \in 1..Len(UPPER) : UPPER[i] = c
    THEN LOWER[CHOOSE i \in 1..Len(UPPER) : UPPER[i] = c]
    ELSE c

\* str.lower()
Lower(s) == [i \in 1..Len(s) |-> LowerChar(s[i])]

\* s.startswith(p)
StartsWith(s, p) == Len(s) >= Len(p) /\ SubSeq(s, 1, Len(p)) = p

\* s.endswith(p)
EndsWith(s, p) == Len(s) >= Len(p) /\ SubSeq(s, Len(s) - Len(p) + 1, Len(s)) = p

\* p in s
Contains(s, p) == \E i \in 0..(Len(s) - Len(p)) : SubSeq(s, i + 1, i + Len(p)) = p

\* s[-n:]
LastChars(s, n) == IF Len(s) <= n THEN s ELSE SubSeq(s, Len(s) - n + 1, Len(s))

\* s.split(c) for a one-character separator
RECURSIVE Split(_, _)
Split(s, c) ==
    IF \A i \in 1..Len(s) : s[i] # c
    THEN <<s>>
    ELSE LET i == CHOOSE k \in 1..Len(s) : s[k] = c /\ \A j \in 1..(k - 1) : s[j] # c
         IN  <<SubSeq(s, 1, i - 1)>> \o Split(SubSeq(s, i + 1, Len(s)), c)

\* sep.join(list)
RECURSIVE Join(_, _)
Join(list, sep) ==
    IF list = <<>> THEN <<>>
    ELSE IF Len(list) = 1 THEN list[1]
    ELSE list[1] \o sep \o Join(Tail(list), sep)

\* os.path.basename(p): what follows the last "/"
basename(p) ==
    IF \A i \in 1..Len(p) : p[i] # "/"
    THEN p
    ELSE LET i == CHOOSE k \in 1..Len(p) : p[k] = "/" /\ \A j \in (k + 1)..Len(p) : p[j] # "/"
         IN  SubSeq(p, i + 1, Len(p))

\* os.path.isfile(p) for a name of the working directory
isfile(f, p) == [name |-> p, isfile |-> TRUE] \in f.listing

---------------------------------------------------------------------------
(* find_unit_tests *)

supported_prefix ==
    << <<"t","b","_">>, <<"t","s","_">>, <<"t","e","s","t","b","e","n","c","h","_">>, <<"t","e","s","t","s","u","i","t","e","_">>, <<"u","n","i","t","_","t","e","s","t","_">> >>

supported_suffix ==
    << <<"_","u","n","i","t","_","t","e","s","t",".","v">>, <<"_","u","n","i","t","_","t","e","s","t",".","s","v">>,
       <<"_","t","e","s","t","b","e","n","c","h",".","v">>, <<"_","t","e","s","t","b","e","n","c","h",".","s","v">>,
       <<"_","t","e","s","t","s","u","i","t","e",".","v">>, <<"_","t","e","s","t","s","u","i","t","e",".","s","v">>,
       <<"_","t","b",".","v">>, <<"_","t","b",".","s","v">>, <<"_","t","s",".","v">>, <<"_","t","s",".","s","v">> >>

\* how many times the scan appends _file to files
Appended(f, _file) ==
    IF isfile(f, _file)
    THEN Cardinality({i \in 1..Len(supported_suffix) : EndsWith(_file, supported_suffix[i])})
       + Cardinality({i \in 1..Len(supported_prefix) : StartsWith(_file, supported_prefix[i])})
    ELSE 0

\* files after the scan of os.listdir: each name with the number of times it was appended
ScannedFiles(f) ==
    LET names == {e.name : e \in f.listing}
    IN  [n \in {m \in names : Appended(f, m) > 0} |-> Appended(f, n)]

\* the lists holding every name n of the domain of count exactly count[n] times
ListsOf(count) ==
    LET total == IF DOMAIN count = {} THEN 0
                 ELSE LET RECURSIVE Sum(_)
                          Sum(D) == IF D = {} THEN 0
                                    ELSE LET x == CHOOSE y \in D : TRUE
                                         IN  count[x] + Sum(D \ {x})
                      IN  Sum(DOMAIN count)
    IN  {l \in [1..total -> DOMAIN count] :
            \A n \in DOMAIN count : Cardinality({i \in 1..total : l[i] = n}) = count[n]}

\* the scan without the final list(set(files))
find_unit_tests_nodedup(f) == ListsOf(ScannedFiles(f))

\* the possible return values: list(set(files)) keeps each name once, in any order
find_unit_tests(f) ==
    LET files == ScannedFiles(f)
    IN  ListsOf([n \in DOMAIN files |-> 1])

---------------------------------------------------------------------------
(* get_defines *)

DASH_D == <<"-","D">>
SPACE  == <<" ">>

\* every segment gets a flag, the empty ones too
get_defines_keepempty(d) ==
    LET RECURSIVE Loop(_, _)
        Loop(defs, acc) ==
            IF defs = <<>> THEN acc
            ELSE Loop(Tail(defs), acc \o DASH_D \o Head(defs) \o SPACE)
    IN  IF d = <<>> THEN <<>> ELSE Loop(Split(d, ";"), <<>>)

get_defines(d) ==
    LET RECURSIVE Loop(_, _)
        Loop(defs, acc) ==
            IF defs = <<>> THEN acc
            ELSE IF Head(defs) # <<>>
                 THEN Loop(Tail(defs), acc \o DASH_D \o Head(defs) \o SPACE)
                 ELSE Loop(Tail(defs), acc)
    IN  IF d = <<>> THEN <<>> ELSE Loop(Split(d, ";"), <<>>)

---------------------------------------------------------------------------
(* The command builders.  Each returns [exit |-> TRUE] where the code calls
   sys.exit(1), and [exit |-> FALSE, cmds |-> the list] where it returns. *)

RM_ICARUS      == <<"r","m"," ","-","f"," ","i","c","a","r","u","s",".","o","u","t">>
IVERILOG_BASE  == <<"i","v","e","r","i","l","o","g"," ","-","g","2","0","1","2"," ","-","W","a","l","l"," ","-","o"," ","i","c","a","r","u","s",".","o","u","t"," ">>
DASH_F         == <<"-","f"," ">>
DASH_I         == <<"-","I"," ">>
VVP            == <<"v","v","p"," ">>
ICARUS_OUT     == <<"i","c","a","r","u","s",".","o","u","t"," ">>
LXT            == <<"-","l","x","t",";">>
WAVE_GTKW      == <<"w","a","v","e",".","g","t","k","w">>
GTKWAVE_SAVE   == <<"g","t","k","w","a","v","e"," ","*",".","l","x","t"," ","w","a","v","e",".","g","t","k","w"," ","&">>
GTKWAVE        == <<"g","t","k","w","a","v","e"," ","*",".","l","x","t"," ","&">>
RM_BUILD       == <<"r","m"," ","-","f","r"," ","b","u","i","l","d">>
VERILATOR_BASE == <<"v","e","r","i","l","a","t","o","r"," ","-","W","a","l","l"," ","-","-","t","r","a","c","e"," ","-","-","M","d","i","r"," ","b","u","i","l","d"," ","+","1","8","0","0","-","2","0","1","7","e","x","t","+","s","v"," ","+","1","8","0","0","-","2","0","0","5","e","x","t","+","v"," ","-","W","n","o","-","S","T","M","T","D","L","Y"," ","-","W","n","o","-","U","N","U","S","E","D"," ","-","W","n","o","-","U","N","D","R","I","V","E","N"," ","-","W","n","o","-","P","I","N","C","O","N","N","E","C","T","E","M","P","T","Y"," ","-","W","p","e","d","a","n","t","i","c"," ","-","W","n","o","-","V","A","R","H","I","D","D","E","N"," ","-","W","n","o","-","l","i","n","t"," ">>
INCDIR         == <<"+","i","n","c","d","i","r","+">>
VERILATOR_TOP  == <<"-","c","c"," ","-","-","e","x","e"," ","-","-","b","u","i","l","d"," ","-","j"," ","-","-","t","o","p","-","m","o","d","u","l","e"," ">>
MAKE_BASE      == <<"m","a","k","e"," ","-","j"," ","-","C"," ","b","u","i","l","d"," ","-","f"," ","V">>
MAKE_MK        == <<".","m","k"," ","V">>
BUILD_V        == <<"b","u","i","l","d","/","V">>

\* the existing dot files, each followed by a space
RECURSIVE Dotfiles(_, _)
Dotfiles(f, dots) ==
    IF dots = <<>> THEN <<>>
    ELSE (IF isfile(f, Head(dots)) THEN Head(dots) \o SPACE ELSE <<>>)
         \o Dotfiles(f, Tail(dots))

\* the "-f ..." part of a compile command
DotfileFlags(f, args) ==
    IF args.dotfile # <<>> /\ Dotfiles(f, args.dotfile) # <<>>
    THEN DASH_F \o Dotfiles(f, args.dotfile) \o SPACE
    ELSE <<>>

\* the define part of a compile command
DefineFlags(args) == IF args.define # <<>> THEN get_defines(args.define) ELSE <<>>

\* the extension check accepts everything
UnsupportedExtension_never(test) == FALSE

\* test[-2:] != ".v" and test[-3:] != ".sv"
UnsupportedExtension(test) ==
    LastChars(test, 2) # <<".","v">> /\ LastChars(test, 3) # <<".","s","v">>

\* the iverilog compile command
IverilogCompile(f, args, test) ==
    IVERILOG_BASE
    \o DefineFlags(args)
    \o DotfileFlags(f, args)
    \o (IF args.include # <<>> THEN DASH_I \o Join(args.include, SPACE) \o SPACE ELSE <<>>)
    \o test \o SPACE

\* the vvp run command
VvpRun(args) ==
    VVP
    \o (IF args.vpi # <<>> THEN args.vpi \o SPACE ELSE <<>>)
    \o ICARUS_OUT
    \o (IF args.gui THEN LXT ELSE <<>>)

\* the list starts at the compile command: no removal of icarus.out
create_iverilog_norm(f, args, test) ==
    IF UnsupportedExtension(test) THEN [exit |-> TRUE]
    ELSE [exit |-> FALSE,
          cmds |-> <<IverilogCompile(f, args, test), VvpRun(args)>>
                   \o (IF args.gui
                       THEN (IF isfile(f, WAVE_GTKW) THEN <<GTKWAVE_SAVE>> ELSE <<GTKWAVE>>)
                       ELSE <<>>)]

create_iverilog(f, args, test) ==
    IF UnsupportedExtension(test) THEN [exit |-> TRUE]
    ELSE [exit |-> FALSE,
          cmds |-> <<RM_ICARUS, IverilogCompile(f, args, test), VvpRun(args)>>
                   \o (IF args.gui
                       THEN (IF isfile(f, WAVE_GTKW) THEN <<GTKWAVE_SAVE>> ELSE <<GTKWAVE>>)
                       ELSE <<>>)]

\* the module name cut from the whole path, directory included
testname_nobasename(test) == Split(test, ".")[1]

\* os.path.basename(test).split(".")[0]
testname(test) == Split(basename(test), ".")[1]

\* "+incdir+<inc> " for every include directory
RECURSIVE Incdirs(_)
Incdirs(incs) ==
    IF incs = <<>> THEN <<>>
    ELSE INCDIR \o Head(incs) \o SPACE \o Incdirs(Tail(incs))

\* the verilator compile-and-build command
VerilatorCompile(f, args, test) ==
    VERILATOR_BASE
    \o DefineFlags(args)
    \o DotfileFlags(f, args)
    \o Incdirs(args.include)
    \o VERILATOR_TOP \o testname(test) \o SPACE
    \o test \o SPACE \o args.main

create_verilator(f, args, test) ==
    IF UnsupportedExtension(test) THEN [exit |-> TRUE]
    ELSE [exit |-> FALSE,
          cmds |-> << RM_BUILD,
                      VerilatorCompile(f, args, test),
                      MAKE_BASE \o testname(test) \o MAKE_MK \o testname(test),
                      BUILD_V \o testname(test) >>]

---------------------------------------------------------------------------
(* The driver *)

IVERILOG  == <<"i","v","e","r","i","l","o","g">>
ICARUS    == <<"i","c","a","r","u","s">>
VERILATOR == <<"v","e","r","i","l","a","t","o","r">>

\* the names are matched against the simulator as typed, not lowered
SelectBuilder_nolower(simulator) ==
    IF Contains(simulator, IVERILOG) \/ Contains(simulator, ICARUS) THEN "iverilog"
    ELSE IF Contains(simulator, VERILATOR) THEN "verilator"
    ELSE "none"

\* which builder the if / elif / else of the loop body takes
SelectBuilder(simulator) ==
    IF Contains(Lower(simulator), IVERILOG) \/ Contains(Lower(simulator), ICARUS) THEN "iverilog"
    ELSE IF Contains(Lower(simulator), VERILATOR) THEN "verilator"
    ELSE "none"

SCRIPTDIR == <<"/","o","p","t","/","s","v","u","t">>
GETCWD    == <<"/","w","o","r","k">>
SVUT_H    == <<"/","s","v","u","t","_","h",".","s","v">>
CP        == <<"c","p"," ">>
GIT_DESCRIBE == <<"g","i","t"," ","d","e","s","c","r","i","b","e"," ","-","-","t","a","g","s"," ","-","-","a","b","b","r","e","v","=","0">>
V000      == <<"v","0",".","0",".","0">>
V_TAG     == <<"v","1",".","9",".","0">>

\* what os.system returns: 0, or the wait status of a command that exited with 1
Rets == {0, 256}

\* "if ARGS.test == "all"": with the argparse default (ARGS.test_default) the
\* tests are the discovered ones; test_default keeps recording how -test was given
Resolve ==
    /\ pc = "parse"
    /\ IF ARGS.test_default
       THEN \E found \in find_unit_tests(fs) : ARGS' = [ARGS EXCEPT !.test = found]
       ELSE UNCHANGED ARGS
    /\ pc' = "loop"
    /\ UNCHANGED <<fs, fs0, ti, CMDS, ci, cmdret, GIT_TAG, exitCode, log, defines, simdefs>>

\* head of "for tests in ARGS.test" and the builder selection of its body
LoopHead ==
    /\ pc = "loop"
    /\ IF ti >= Len(ARGS.test)
       THEN \* the list is exhausted: the script ends
            /\ pc' = "done"
            /\ exitCode' = 0
            /\ UNCHANGED <<ARGS, ti, CMDS>>
       ELSE LET tests == ARGS.test[ti + 1]
                args  == [ARGS EXCEPT !.simulator = Lower(ARGS.simulator)]
                which == SelectBuilder(ARGS.simulator)
                built == IF which = "iverilog" THEN create_iverilog(fs, args, tests)
                         ELSE IF which = "verilator" THEN create_verilator(fs, args, tests)
                         ELSE [exit |-> TRUE]
            IN  /\ ti' = ti + 1
                /\ ARGS' = args
                /\ IF built.exit
                   THEN /\ pc' = "done"
                        /\ exitCode' = 1
                        /\ UNCHANGED CMDS
                   ELSE /\ pc' = "sync"
                        /\ CMDS' = built.cmds
                        /\ UNCHANGED exitCode
    /\ UNCHANGED <<fs, fs0, ci, cmdret, GIT_TAG, log, defines, simdefs>>

\* copy svut_h.sv into the working directory if absent or different
HeaderSync ==
    /\ pc = "sync"
    /\ IF fs.curr_hfile = "none" \/ fs.curr_hfile # fs.org_hfile
       THEN /\ log' = Append(log, [kind |-> "system", test |-> ti, idx |-> 0,
                                   cmd |-> CP \o SCRIPTDIR \o SVUT_H \o SPACE \o GETCWD,
                                   ret |-> 0])
            /\ fs' = [fs EXCEPT !.curr_hfile = fs.org_hfile]
       ELSE UNCHANGED <<fs, log>>
    /\ pc' = "tag"
    /\ UNCHANGED <<ARGS, fs0, ti, CMDS, ci, cmdret, GIT_TAG, exitCode, defines, simdefs>>

\* get_git_tag: the last tag, or "v0.0.0" when git fails
get_git_tag ==
    /\ pc = "tag"
    /\ \E ok \in BOOLEAN :
          /\ GIT_TAG' = IF ok THEN V_TAG ELSE V000
          /\ log' = Append(log, [kind |-> "subprocess", test |-> ti, idx |-> 0,
                                 cmd |-> GIT_DESCRIBE, ret |-> IF ok THEN 0 ELSE 128])
    /\ pc' = "dry"
    /\ UNCHANGED <<ARGS, fs, fs0, ti, CMDS, ci, cmdret, exitCode, defines, simdefs>>

\* the dry-run never exits: the commands are run all the same
CheckDry_ignored ==
    /\ pc = "dry"
    /\ pc' = "exec"
    /\ cmdret' = 0
    /\ ci' = 1
    /\ UNCHANGED exitCode
    /\ UNCHANGED <<ARGS, fs, fs0, ti, CMDS, GIT_TAG, log, defines, simdefs>>

\* the dry-run exit; otherwise the start banner and cmdret = 0
CheckDry ==
    /\ pc = "dry"
    /\ IF ARGS.dry
       THEN /\ pc' = "done"
            /\ exitCode' = 0
            /\ UNCHANGED <<cmdret, ci>>
       ELSE /\ pc' = "exec"
            /\ cmdret' = 0
            /\ ci' = 1
            /\ UNCHANGED exitCode
    /\ UNCHANGED <<ARGS, fs, fs0, ti, CMDS, GIT_TAG, log, defines, simdefs>>

\* what a successful command leaves in the working directory
ShellEffect(listing, cmd, ret) ==
    IF ret # 0 THEN listing
    ELSE IF cmd = RM_ICARUS
         THEN {e \in listing : e.name # <<"i","c","a","r","u","s",".","o","u","t">>}
    ELSE IF StartsWith(cmd, IVERILOG_BASE)
         THEN listing \cup {[name |-> <<"i","c","a","r","u","s",".","o","u","t">>, isfile |-> TRUE]}
    ELSE IF cmd = RM_BUILD
         THEN {e \in listing : e.name # <<"b","u","i","l","d">>}
    ELSE IF StartsWith(cmd, VERILATOR_BASE)
         THEN {e \in listing : e.name # <<"b","u","i","l","d">>} \cup {[name |-> <<"b","u","i","l","d">>, isfile |-> FALSE]}
    ELSE listing

\* a failing command does not stop the list, and its status is kept as it is
ExecCmd_nobreak ==
    /\ pc = "exec"
    /\ \E ret \in Rets :
          /\ log' = Append(log, [kind |-> "system", test |-> ti, idx |-> ci,
                                 cmd |-> CMDS[ci], ret |-> ret])
          /\ fs' = [fs EXCEPT !.listing = ShellEffect(@, CMDS[ci], ret)]
          /\ cmdret' = ret
          /\ ci' = ci + 1
          /\ pc' = IF ci = Len(CMDS) THEN "stop" ELSE "exec"
    /\ UNCHANGED <<ARGS, fs0, ti, CMDS, GIT_TAG, exitCode, defines, simdefs>>

\* one turn of "for CMD in CMDS": run the command, break on a non-zero status
ExecCmd ==
    /\ pc = "exec"
    /\ \E ret \in Rets :
          /\ log' = Append(log, [kind |-> "system", test |-> ti, idx |-> ci,
                                 cmd |-> CMDS[ci], ret |-> ret])
          /\ fs' = [fs EXCEPT !.listing = ShellEffect(@, CMDS[ci], ret)]
          /\ IF ret # 0
             THEN /\ cmdret' = 1
                  /\ pc' = "stop"
                  /\ UNCHANGED ci
             ELSE /\ cmdret' = ret
                  /\ ci' = ci + 1
                  /\ pc' = IF ci = Len(CMDS) THEN "stop" ELSE "exec"
    /\ UNCHANGED <<ARGS, fs0, ti, CMDS, GIT_TAG, exitCode, defines, simdefs>>

\* elapsed time, stop banner and sys.exit(cmdret), all inside the test loop's body:
\* no path of the body leads back to the head of the loop
Finish ==
    /\ pc = "stop"
    /\ pc' = "done"
    /\ exitCode' = cmdret
    /\ UNCHANGED <<ARGS, fs, fs0, ti, CMDS, ci, cmdret, GIT_TAG, log, defines, simdefs>>

\* a direct call of get_defines
GetDefines ==
    /\ pc = "get_defines"
    /\ simdefs' = get_defines(defines)
    /\ pc' = "returned"
    /\ UNCHANGED <<ARGS, fs, fs0, ti, CMDS, ci, cmdret, GIT_TAG, exitCode, log, defines>>

---------------------------------------------------------------------------
(* Inputs *)

FILES_F  == <<"f","i","l","e","s",".","f">>
SIM_MAIN == <<"s","i","m","_","m","a","i","n",".","c","p","p">>

\* the argparse defaults
DefaultARGS ==
    [test_default |-> TRUE, test |-> <<>>, dotfile |-> <<FILES_F>>,
     simulator |-> ICARUS, main |-> SIM_MAIN, define |-> <<>>, vpi |-> <<>>,
     gui |-> FALSE, dry |-> FALSE, include |-> <<>>]

File(n) == [name |-> n, isfile |-> TRUE]
Dir(n)  == [name |-> n, isfile |-> FALSE]

\* option profiles: the defaults, and every option given
Profiles ==
    { [define |-> <<>>, dotfile |-> <<FILES_F>>, include |-> <<>>, vpi |-> <<>>,
       main |-> SIM_MAIN, files |-> {}],
      [define |-> <<"A","=","1",";","B",";",";","C","=","3">>, dotfile |-> <<FILES_F, <<"g","o","n","e",".","f">>>>,
       include |-> <<<<"i","n","c">>, <<"r","t","l">>>>, vpi |-> <<"-","M","."," ","-","m","M","y","V","P","I">>,
       main |-> <<"m","a","i","n",".","c","p","p">>, files |-> {File(FILES_F)}] }

Simulators == { <<"i","c","a","r","u","s">>, <<"I","V","e","r","i","l","o","g">>, <<"V","e","r","i","l","a","t","o","r">>, <<"m","o","d","e","l","s","i","m">> }

TestPaths == { <<"t","b","_","a",".","v">>, <<".","/","d","i","r","/","m","y","_","t","e","s","t",".","s","v">>, <<"a","l","l">> }

\* the explicit -test lists
TestLists == UNION { [1..n -> TestPaths] : n \in 0..MaxTests }

\* working directories for a run with the default -test
SpecDirs ==
    { {},
      {File(<<"t","b","_","a",".","v">>)},
      {File(<<"t","b","_","a","_","t","b",".","v">>), File(<<"b","_","t","s",".","s","v">>), Dir(<<"t","b","_","s","u","b">>)},
      {File(<<"t","s","_","x",".","t","x","t">>), File(<<"f","o","o",".","v">>)} }

Selections ==
    { [default |-> FALSE, list |-> l, listing |-> {}] : l \in TestLists }
    \cup { [default |-> TRUE, list |-> <<>>, listing |-> d] : d \in SpecDirs }

Idle ==
    /\ fs0 = fs
    /\ ti = 0
    /\ CMDS = <<>>
    /\ ci = 0
    /\ cmdret = 0
    /\ GIT_TAG = <<>>
    /\ exitCode = NoExit
    /\ log = <<>>

\* The svut_h.sv beside the script (org_hfile) is part of the installation and
\* is taken to be in place; the working directory's copy (curr_hfile) is absent
\* ("none"), different ("old") or identical ("new").
Init ==
    /\ pc = "parse"
    /\ \E sel \in Selections, sim \in Simulators, prof \in Profiles,
          gui \in BOOLEAN, dry \in BOOLEAN, wave \in BOOLEAN,
          hc \in {"none", "old", "new"} :
          /\ ARGS = [test_default |-> sel.default, test |-> sel.list,
                     dotfile |-> prof.dotfile, simulator |-> sim, main |-> prof.main,
                     define |-> prof.define, vpi |-> prof.vpi, gui |-> gui, dry |-> dry,
                     include |-> prof.include]
          /\ fs = [listing |-> sel.listing \cup prof.files
                                \cup (IF wave THEN {File(WAVE_GTKW)} ELSE {}),
                   curr_hfile |-> hc, org_hfile |-> "new"]
    /\ Idle
    /\ defines = <<>>
    /\ simdefs = <<>>

Next ==
    \/ Resolve
    \/ LoopHead
    \/ HeaderSync
    \/ get_git_tag
    \/ CheckDry
    \/ ExecCmd
    \/ Finish

Spec == Init /\ [][Next]_vars

---------------------------------------------------------------------------
(* Discovery alone: the default -test in every small working directory *)

DirPool ==
    { File(<<"t","b","_","a",".","v">>), File(<<"a","_","t","b",".","s","v">>), File(<<"t","b","_","a","_","t","b",".","v">>),
      File(<<"u","n","i","t","_","t","e","s","t","_","a","_","u","n","i","t","_","t","e","s","t",".","s","v">>), File(<<"f","o","o",".","v">>), File(<<"t","s","_","x",".","t","x","t">>),
      Dir(<<"t","b","_","s","u","b">>), Dir(<<"d","_","t","s",".","v">>) }

InitDiscover ==
    /\ pc = "parse"
    /\ ARGS = DefaultARGS
    /\ \E d \in SUBSET DirPool :
          /\ Cardinality(d) <= MaxDirEntries
          /\ fs = [listing |-> d, curr_hfile |-> "new", org_hfile |-> "new"]
    /\ Idle
    /\ defines = <<>>
    /\ simdefs = <<>>

NextDiscover == Resolve

SpecDiscover == InitDiscover /\ [][NextDiscover]_vars

---------------------------------------------------------------------------
(* Command construction alone: one test path, generated character by character *)

PathChars == {"a", ".", "/"}

Stems == UNION { [1..n -> PathChars] : n \in 0..MaxStemLen }

GenPaths ==
    { stem \o ext : stem \in Stems, ext \in {<<".","s","v">>, <<".","v">>, <<".","v","h","d">>, <<>>} }
    \cup { <<".","/","d","i","r","/","m","y","_","t","e","s","t",".","s","v">> }

InitBuild ==
    /\ pc = "loop"
    /\ \E p \in GenPaths, sim \in {<<"i","c","a","r","u","s">>, <<"V","e","r","i","l","a","t","o","r">>}, prof \in Profiles,
          gui \in BOOLEAN, wave \in BOOLEAN :
          /\ ARGS = [test_default |-> FALSE, test |-> <<p>>,
                     dotfile |-> prof.dotfile, simulator |-> sim, main |-> prof.main,
                     define |-> prof.define, vpi |-> prof.vpi, gui |-> gui, dry |-> TRUE,
                     include |-> prof.include]
          /\ fs = [listing |-> prof.files \cup (IF wave THEN {File(WAVE_GTKW)} ELSE {}),
                   curr_hfile |-> "new", org_hfile |-> "new"]
    /\ Idle
    /\ defines = <<>>
    /\ simdefs = <<>>

NextBuild == LoopHead

SpecBuild == InitBuild /\ [][NextBuild]_vars

---------------------------------------------------------------------------
(* get_defines alone: every short define string *)

DefineChars == {"A", "=", ";"}

DefineInputs ==
    UNION { [1..n -> DefineChars] : n \in 0..MaxDefineLen } \cup { <<"A","=","1",";","B",";",";","C","=","3">> }

InitDefines ==
    /\ pc = "get_defines"
    /\ ARGS = DefaultARGS
    /\ fs = [listing |-> {}, curr_hfile |-> "new", org_hfile |-> "new"]
    /\ Idle
    /\ defines \in DefineInputs
    /\ simdefs = <<>>

NextDefines == GetDefines

SpecDefines == InitDefines /\ [][NextDefines]_vars

---------------------------------------------------------------------------
(* Vocabulary of the properties *)

\* p occurs in s, letter case apart
ContainsIgnoringCase(s, p) ==
    \E i \in 0..(Len(s) - Len(p)) :
        \A k \in 1..Len(p) : LowerChar(s[i + k]) = LowerChar(p[k])

IcarusName(s) == ContainsIgnoringCase(s, IVERILOG) \/ ContainsIgnoringCase(s, ICARUS)

SupportedSimulator(s) == IcarusName(s) \/ ContainsIgnoringCase(s, VERILATOR)

\* the path ends in the characters ".v" or ".sv"
VerilogPath(t) == EndsWith(t, <<".","v">>) \/ EndsWith(t, <<".","s","v">>)

\* a log entry that is a command of a constructed command list
IsCommand(e) == e.kind = "system" /\ e.idx >= 1

\* the commands of constructed lists run so far, in the order they were run
Commands == SelectSeq(log, IsCommand)

\* some command of test number j returned a non-zero status
FailedIn(j) == \E n \in 1..Len(log) : IsCommand(log[n]) /\ log[n].test = j /\ log[n].ret # 0

\* the first command of test number j has been run
Started(j) == \E n \in 1..Len(log) : IsCommand(log[n]) /\ log[n].test = j /\ log[n].idx = 1

\* the test set is resolved
Resolved == pc \notin {"parse", "get_defines", "returned"}

---------------------------------------------------------------------------
(* C1 .. C10 *)

\* C1: in a run of two or more tests (supported simulator and extensions,
\* dry-run off) in which a command of a test fails, every later test of the
\* set has had its first command run when the program terminates.
C1_LaterTestsStarted ==
    ( /\ pc = "done"
      /\ ~ARGS.dry
      /\ Len(ARGS.test) >= 2
      /\ SupportedSimulator(ARGS.simulator)
      /\ \A j \in 1..Len(ARGS.test) : VerilogPath(ARGS.test[j])
      /\ FailedIn(1) )
    => \A j \in 2..Len(ARGS.test) : Started(j)

\* C2: when dry-run is off and commands were run, the exit code is the result
\* code of the last test of the set: 1 if one of ITS commands returned
\* non-zero, 0 otherwise, whatever happened in an earlier test.
C2_ExitCodeOfLastTest ==
    ( /\ pc = "done"
      /\ ~ARGS.dry
      /\ Len(ARGS.test) >= 1
      /\ Commands # <<>> )
    => exitCode = (IF FailedIn(Len(ARGS.test)) THEN 1 ELSE 0)

\* C3: the commands of the executed test are run in list order, one at a time;
\* nothing is run after a command that returned non-zero and the result code
\* is then 1; if all return zero, all are run and the result code is 0.
C3_InOrderStopAtFirstFailure ==
    LET runs == Commands
    IN  /\ Len(runs) <= Len(CMDS)
        /\ \A n \in 1..Len(runs) :
              /\ runs[n].idx = n
              /\ runs[n].test = ti
              /\ runs[n].cmd = CMDS[n]
              /\ n < Len(runs) => runs[n].ret = 0
        /\ (pc = "exec") => \A n \in 1..Len(runs) : runs[n].ret = 0
        /\ (pc \in {"stop", "done"} /\ runs # <<>>) =>
              IF runs[Len(runs)].ret # 0
              THEN cmdret = 1
              ELSE Len(runs) = Len(CMDS) /\ cmdret = 0

C3_Witness ==
    /\ pc = "done"
    /\ Len(Commands) = 2
    /\ Len(CMDS) = 4
    /\ Commands[1].ret = 0
    /\ Commands[2].ret # 0
    /\ cmdret = 1

\* the premise of C4: dry-run, supported simulator, non-empty set of supported extensions
DryRunDone ==
    /\ pc = "done"
    /\ ARGS.dry
    /\ SupportedSimulator(ARGS.simulator)
    /\ Len(ARGS.test) >= 1
    /\ \A j \in 1..Len(ARGS.test) : VerilogPath(ARGS.test[j])

\* C4 as written: a dry run exits 0 having run no shell command at all and
\* having created or changed no file of the working directory.
C4_DryRunTouchesNothing ==
    DryRunDone =>
        /\ exitCode = 0
        /\ \A n \in 1..Len(log) : log[n].kind # "system"
        /\ fs = fs0

\* C4 amended: a dry run exits 0 before execution begins, having run no
\* command of a constructed list and having left the directory listing alone
\* (no icarus.out); the one shell command it may run is the copy of svut_h.sv,
\* run exactly when the working copy was absent or different, and svut_h.sv
\* is the one file that may change.
C4_DryRunRunsNoCommand ==
    DryRunDone =>
        /\ exitCode = 0
        /\ Commands = <<>>
        /\ ci = 0
        /\ fs.listing = fs0.listing
        /\ ~isfile(fs, <<"i","c","a","r","u","s",".","o","u","t">>) \/ isfile(fs0, <<"i","c","a","r","u","s",".","o","u","t">>)
        /\ LET shell == SelectSeq(log, LAMBDA e : e.kind = "system")
           IN  IF fs0.curr_hfile # fs0.org_hfile
               THEN /\ Len(shell) = 1
                    /\ StartsWith(shell[1].cmd, CP)
                    /\ EndsWith(shell[1].cmd, SVUT_H \o SPACE \o GETCWD)
                    /\ fs.curr_hfile = fs0.org_hfile
               ELSE shell = <<>> /\ fs = fs0

C4_Witness ==
    /\ DryRunDone
    /\ exitCode = 0
    /\ fs0.curr_hfile = "none"
    /\ fs.curr_hfile = "new"
    /\ Len(ARGS.test) = 2

C6_UnsupportedSimulatorExits1 ==
    (pc = "done" /\ ~SupportedSimulator(ARGS.simulator))
    => exitCode = 1 /\ log = <<>>

\* C6 amended: the same for every NON-EMPTY resolved test set; and a name
\* containing "iverilog" or "icarus" (letter case apart) selects Variant A,
\* otherwise one containing "verilator" selects Variant B, never the error.
C6_UnsupportedSimulatorNonEmpty ==
    /\ (Resolved /\ ~SupportedSimulator(ARGS.simulator) /\ Len(ARGS.test) >= 1)
       => /\ pc \in {"loop", "done"}
          /\ log = <<>>
          /\ CMDS = <<>>
          /\ pc = "done" => exitCode = 1
    /\ (Resolved /\ SupportedSimulator(ARGS.simulator) /\ ti >= 1
          /\ VerilogPath(ARGS.test[ti]))
       => /\ CMDS # <<>>
          /\ CMDS[1] = (IF IcarusName(ARGS.simulator) THEN RM_ICARUS ELSE RM_BUILD)

C6_Witness ==
    /\ pc = "done"
    /\ ~SupportedSimulator(ARGS.simulator)
    /\ Len(ARGS.test) = 2
    /\ exitCode = 1
    /\ log = <<>>

\* the name follows the naming convention of unit tests
Conventional(n) ==
    \/ \E i \in 1..Len(supported_prefix) : StartsWith(n, supported_prefix[i])
    \/ \E i \in 1..Len(supported_suffix) : EndsWith(n, supported_suffix[i])

\* C7: find_unit_tests returns exactly the regular files of the working
\* directory whose name starts with a prefix or ends with a suffix, each
\* exactly once; with no such file the result is empty, and no error.
C7_DiscoveryExactlyOnce ==
    (ARGS.test_default /\ Resolved) =>
        /\ \A i, j \in 1..Len(ARGS.test) : ARGS.test[i] = ARGS.test[j] => i = j
        /\ {ARGS.test[i] : i \in 1..Len(ARGS.test)}
              = {e.name : e \in {x \in fs0.listing : x.isfile /\ Conventional(x.name)}}
        /\ exitCode = NoExit

C7_Witness ==
    /\ pc = "loop"
    /\ ARGS.test_default
    /\ fs0.listing = {File(<<"t","b","_","a","_","t","b",".","v">>), File(<<"f","o","o",".","v">>), Dir(<<"t","b","_","s","u","b">>)}
    /\ ARGS.test = <<<<"t","b","_","a","_","t","b",".","v">>>>

\* the flags of a define string, built one character at a time: cur is the
\* segment being read
RECURSIVE FlagsByScan(_, _)
FlagsByScan(s, cur) ==
    LET flush == IF cur = <<>> THEN <<>> ELSE <<"-","D">> \o cur \o <<" ">>
    IN  IF s = <<>> THEN flush
        ELSE IF Head(s) = ";" THEN flush \o FlagsByScan(Tail(s), <<>>)
        ELSE FlagsByScan(Tail(s), Append(cur, Head(s)))

\* C8: get_defines gives "-D<segment> " for every non-empty segment of the
\* semicolon-separated string, in order, nothing for an empty segment, ""
\* for ""; "A=1;B;;C=3" gives "-DA=1 -DB -DC=3 ".
C8_DefinesFormatting ==
    (pc = "returned") =>
        /\ simdefs = FlagsByScan(defines, <<>>)
        /\ defines = <<>> => simdefs = <<>>
        /\ defines = <<"A","=","1",";","B",";",";","C","=","3">> => simdefs = <<"-","D","A","=","1"," ","-","D","B"," ","-","D","C","=","3"," ">>

C8_Witness ==
    /\ pc = "returned"
    /\ defines = <<"A","=","1",";","B",";",";","C","=","3">>
    /\ simdefs = <<"-","D","A","=","1"," ","-","D","B"," ","-","D","C","=","3"," ">>

\* C9: the Variant A list is the removal of icarus.out, the iverilog compile,
\* the vvp run, and with GUI on one more entry, the waveform viewer, with
\* wave.gtkw exactly when that file exists; so vvp never runs in an iteration
\* unless the removal and the compile returned zero before it.
C9_IverilogCommandList ==
    /\ (Resolved /\ CMDS # <<>> /\ IcarusName(ARGS.simulator)) =>
          /\ Len(CMDS) = (IF ARGS.gui THEN 4 ELSE 3)
          /\ CMDS[1] = <<"r","m"," ","-","f"," ","i","c","a","r","u","s",".","o","u","t">>
          /\ StartsWith(CMDS[2], <<"i","v","e","r","i","l","o","g"," ">>)
          /\ EndsWith(CMDS[2], ARGS.test[ti] \o <<" ">>)
          /\ StartsWith(CMDS[3], <<"v","v","p"," ">>)
          /\ Contains(CMDS[3], <<"i","c","a","r","u","s",".","o","u","t">>)
          /\ ARGS.gui =>
                CMDS[4] = (IF File(<<"w","a","v","e",".","g","t","k","w">>) \in fs0.listing
                           THEN <<"g","t","k","w","a","v","e"," ","*",".","l","x","t"," ","w","a","v","e",".","g","t","k","w"," ","&">>
                           ELSE <<"g","t","k","w","a","v","e"," ","*",".","l","x","t"," ","&">>)
    /\ \A n \in 1..Len(log) :
          (IsCommand(log[n]) /\ StartsWith(log[n].cmd, <<"v","v","p"," ">>)) =>
              \E a, b \in 1..(n - 1) :
                  /\ a < b
                  /\ log[a].test = log[n].test /\ log[b].test = log[n].test
                  /\ log[a].cmd = <<"r","m"," ","-","f"," ","i","c","a","r","u","s",".","o","u","t">> /\ log[a].ret = 0
                  /\ StartsWith(log[b].cmd, <<"i","v","e","r","i","l","o","g"," ">>) /\ log[b].ret = 0

C9_Witness ==
    /\ pc = "done"
    /\ ARGS.gui
    /\ isfile(fs0, <<"w","a","v","e",".","g","t","k","w">>)
    /\ Len(CMDS) = 4
    /\ CMDS[4] = <<"g","t","k","w","a","v","e"," ","*",".","l","x","t"," ","w","a","v","e",".","g","t","k","w"," ","&">>
    /\ Len(Commands) = 4
    /\ StartsWith(Commands[3].cmd, <<"v","v","p"," ">>)

\* m is the base name of path t cut at its first "."
ModuleNameOf(m, t) ==
    \E d \in 0..Len(t) :
        LET base == SubSeq(t, d + 1, Len(t))
        IN  /\ d = 0 \/ t[d] = "/"
            /\ \A i \in 1..Len(base) : base[i] # "/"
            /\ \A i \in 1..Len(m) : m[i] # "."
            /\ StartsWith(base, m)
            /\ Len(base) = Len(m) \/ base[Len(m) + 1] = "."

\* C10: Variant B names the module after the base name of the test path cut at
\* its first "." ("./dir/my_test.sv" gives "my_test") and returns four
\* commands: "rm -fr build", the verilator command with that top module, the
\* test path and the main file, the make command and the built binary.
C10_VerilatorCommandList ==
    (Resolved /\ CMDS # <<>> /\ ~IcarusName(ARGS.simulator)) =>
        /\ Len(CMDS) = 4
        /\ CMDS[1] = <<"r","m"," ","-","f","r"," ","b","u","i","l","d">>
        /\ StartsWith(CMDS[4], <<"b","u","i","l","d","/","V">>)
        /\ LET m == SubSeq(CMDS[4], 8, Len(CMDS[4]))
               t == ARGS.test[ti]
           IN  /\ ModuleNameOf(m, t)
               /\ t = <<".","/","d","i","r","/","m","y","_","t","e","s","t",".","s","v">> => m = <<"m","y","_","t","e","s","t">>
               /\ StartsWith(CMDS[2], <<"v","e","r","i","l","a","t","o","r"," ">>)
               /\ EndsWith(CMDS[2], <<"-","-","t","o","p","-","m","o","d","u","l","e"," ">> \o m \o <<" ">> \o t \o <<" ">> \o ARGS.main)
               /\ CMDS[3] = <<"m","a","k","e"," ","-","j"," ","-","C"," ","b","u","i","l","d"," ","-","f"," ","V">> \o m \o <<".","m","k"," ","V">> \o m

C10_Witness ==
    /\ pc = "sync"
    /\ ARGS.test = <<<<".","/","d","i","r","/","m","y","_","t","e","s","t",".","s","v">>>>
    /\ Len(CMDS) = 4
    /\ CMDS[3] = <<"m","a","k","e"," ","-","j"," ","-","C"," ","b","u","i","l","d"," ","-","f"," ","V","m","y","_","t","e","s","t",".","m","k"," ","V","m","y","_","t","e","s","t">>
    /\ CMDS[4] = <<"b","u","i","l","d","/","V","m","y","_","t","e","s","t">>

=============================================================================
